---- MODULE Spec2Model ----
(***************************************************************************)
(* Model of src/src/api_client.py: RateLimiter (sliding-window admission)  *)
(* and APIClient._make_request (rate limit, transport call, retry with     *)
(* exponential backoff, response envelope).                                *)
(*                                                                         *)
(* Time is time.time() in whole seconds.                                   *)
(***************************************************************************)
EXTENDS Integers, Sequences, FiniteSets, TLC

(***************************************************************************)
(* Bounds of the model.                                                    *)
(***************************************************************************)
\* largest RateLimiter.max_requests drawn in the limiter specification
MaxRequests == 2
\* largest RateLimiter.time_window drawn in the limiter specification
MaxWindow == 3
\* the clock of the limiter specification stops advancing here
MaxNow == 6
\* can_proceed calls recorded per behaviour of the limiter specification
MaxCalls == 4
\* largest APIClient.retries drawn in the client specification
MaxRetries == 2
\* largest APIClient rate_limit drawn in the client specification
MaxRateLimit == 2
\* _make_request calls per behaviour of the client specification
MaxReqs == 2
\* longest base_url and endpoint drawn, in characters
MaxLen == 3
\* threads that call can_proceed on one limiter
NThreads == 2
\* most documents of a YAML text given to apply_yaml
MaxDocs == 2
\* the clock of the threads specification stops advancing here
MaxThreadNow == 2
\* can_proceed calls per thread of the threads specification
MaxThreadCalls == 2
\* steps of the other task of the event loop that are counted
MaxRan == 2

(***************************************************************************)
(* Program constants.                                                      *)
(***************************************************************************)
\* RateLimiter(rate_limit, 60): the client's window
ClientWindow == 60
\* timeout: int = 30: the per-attempt timeout
ClientTimeout == 30

(***************************************************************************)
(* Optional values: None, or Some(v).                                      *)
(***************************************************************************)
None == [some |-> FALSE, val |-> ""]
Some(v) == [some |-> TRUE, val |-> v]

VARIABLES
    max_requests,   \* RateLimiter.max_requests
    time_window,    \* RateLimiter.time_window
    requests,       \* RateLimiter.requests: the recorded timestamps, in order
    now,            \* time.time()
    rl_log,         \* history (SpecRL): every direct can_proceed call, [t, ok]
    cp_last,        \* history (SpecRL): the last direct can_proceed call,
                    \* [called, t, ok, before]
    wt_last,        \* history (SpecRL): the last direct wait_time call,
                    \* [called, t, ret, before, after]
    wt_hist,        \* history (SpecRL): the direct wait_time calls since the
                    \* last admission, [t, ret], the last two of them
    retries,        \* APIClient.retries
    session,        \* APIClient.session is set (aiohttp) or None (requests)
    req,            \* the activation of _make_request: its locals, its position
                    \* and result, and the history of what it did
    nreq,           \* history: _make_request calls so far
    twin,           \* the same request run on the other transport path, in a
                    \* world of its own: [req, requests, now]
    ctor,           \* the arguments of APIClient.__init__: [base_url, auth_token]
    base_url,       \* APIClient.base_url
    default_headers,\* APIClient.default_headers
    built,          \* history: the last url and merged_headers of _make_request
    loop,           \* the event loop's thread while one _make_request runs on it
    thr,            \* the threads inside can_proceed: position and locals of each
    admitted,       \* history: the timestamps of the can_proceed calls that
                    \* returned True, in order
    pods,           \* KubernetesManager._pods, in insertion order
    live,           \* history: the names created and not deleted afterwards
    k8s_last,       \* history: the last KubernetesManager call and its result
    closed,         \* APIClient.session has been closed by __aexit__
    containers,     \* DockerManager._containers, in insertion order
    docker_last,    \* history: the last DockerManager call and its result
    config,         \* Config: the attributes of its sections
    config_load     \* the file given to Config.load_from_file and, once it
                    \* has been called, how the call ended

rl_vars == <<max_requests, time_window, requests, now, rl_log, cp_last, wt_last, wt_hist>>
client_vars == <<retries, session, req, nreq, twin>>
build_vars == <<ctor, base_url, default_headers, built>>
thread_vars == <<thr, admitted>>
pod_vars == <<pods, live, k8s_last>>
docker_vars == <<containers, docker_last>>
config_vars == <<config, config_load>>
more_vars == <<closed, docker_vars, config_vars>>
ext_vars == <<build_vars, loop, thread_vars, pod_vars, more_vars>>
vars == <<rl_vars, client_vars, ext_vars>>

(***************************************************************************)
(* RateLimiter                                                             *)
(***************************************************************************)
\* line 40 with the comparison  now - req_time <= time_window
PruneKeepsBoundary(reqs, t, W) ==
    SelectSeq(reqs, LAMBDA req_time : t - req_time <= W)

\* line 40 with a window one second short
PruneEarly(reqs, t, W) ==
    SelectSeq(reqs, LAMBDA req_time : t - req_time < W - 1)

\* line 40: [req_time for req_time in self.requests if now - req_time < self.time_window]
Prune(reqs, t, W) ==
    SelectSeq(reqs, LAMBDA req_time : t - req_time < W)

\* line 42 with <= for <
CanAdmitOffByOne(reqs, N) == Len(reqs) <= N

\* line 42: len(self.requests) < self.max_requests
CanAdmit(reqs, N) == Len(reqs) < N

\* can_proceed that records the timestamp before the check
CanProceedRecordsDenied(reqs, t, N, W) ==
    LET pruned == Prune(reqs, t, W)
    IN  [reqs |-> Append(pruned, t), ok |-> CanAdmit(pruned, N)]

\* RateLimiter.can_proceed at time t: the new list and the returned value
CanProceed(reqs, t, N, W) ==
    LET pruned == Prune(reqs, t, W)
    IN  IF CanAdmit(pruned, N)
        THEN [reqs |-> Append(pruned, t), ok |-> TRUE]
        ELSE [reqs |-> pruned, ok |-> FALSE]

RECURSIVE SeqMin(_)
\* min(self.requests) of a non-empty list
SeqMin(s) ==
    IF Len(s) = 1 THEN s[1]
    ELSE LET m == SeqMin(Tail(s)) IN IF s[1] < m THEN s[1] ELSE m

\* max(0, x)
Max0(x) == IF x > 0 THEN x ELSE 0

\* wait_time that reports the whole window
WaitTimeFullWindow(reqs, t, W) ==
    IF reqs = <<>> THEN 0
    ELSE W

\* wait_time measured from the newest timestamp
WaitTimeFromNewest(reqs, t, W) ==
    IF reqs = <<>> THEN 0
    ELSE Max0(W - (t - reqs[Len(reqs)]))

\* wait_time that returns the time elapsed since the oldest timestamp
WaitTimeElapsed(reqs, t, W) ==
    IF reqs = <<>> THEN 0
    ELSE Max0(t - SeqMin(reqs))

\* RateLimiter.wait_time at time t
WaitTime(reqs, t, W) ==
    IF reqs = <<>> THEN 0
    ELSE Max0(W - (t - SeqMin(reqs)))

(***************************************************************************)
(* Transport outcomes: what one call of session.request (aiohttp) or       *)
(* requests.request does.                                                  *)
(***************************************************************************)
\* the status codes drawn for a response
Statuses == {200, 400, 500}

Json == "application/json"
Text == "text/plain"

\* a response: its status, its Content-Type, and whether its body decodes as JSON
Response(st, ct, dec) ==
    [kind |-> "response", status |-> st, ctype |-> ct, decodes |-> dec, exc |-> ""]

\* the call raises exception e
Raise(e) ==
    [kind |-> "raise", status |-> 0, ctype |-> "", decodes |-> FALSE, exc |-> e]

Responses ==
    {Response(st, Json, dec) : st \in Statuses, dec \in BOOLEAN}
        \cup {Response(st, Text, FALSE) : st \in Statuses}

\* connectivity failures and timeouts, subclasses of Exception
TransportErrors == {"ConnectionError", "TimeoutError"}

\* KeyboardInterrupt is a BaseException, not an Exception
Outcomes == Responses \cup {Raise(e) : e \in TransportErrors \cup {"KeyboardInterrupt"}}

\* str(e): asyncio.TimeoutError() carries no message
StrOf(e) ==
    CASE e = "ConnectionError" -> "Connection refused"
      [] e = "TimeoutError" -> ""
      [] e = "JSONDecodeError" -> "Expecting value: line 1 column 1 (char 0)"
      [] e = "RuntimeError" -> "Session is closed"
      [] OTHER -> ""

\* a handler that catches connection errors only
CatchesConnectionOnly(e) == e = "ConnectionError"

\* line 162: except Exception
Catches(e) == e # "KeyboardInterrupt"

\* the time a transport call takes: a timeout takes the per-attempt timeout
Latency(o) ==
    IF o.kind = "raise" /\ o.exc = "TimeoutError" THEN ClientTimeout ELSE 0

\* _parse_response (aiohttp): response.json() raises on a body that does not decode
ParseAsync(o) ==
    IF o.ctype = Json
    THEN IF o.decodes THEN [raised |-> FALSE, data |-> Some("json")]
                      ELSE [raised |-> TRUE, data |-> None]
    ELSE [raised |-> FALSE, data |-> Some("text")]

\* _parse_sync_response (requests): json.JSONDecodeError is caught, the text returned
ParseSync(o) ==
    IF o.ctype = Json
    THEN IF o.decodes THEN [raised |-> FALSE, data |-> Some("json")]
                      ELSE [raised |-> FALSE, data |-> Some("text")]
    ELSE [raised |-> FALSE, data |-> Some("text")]

\* success with <= 400
IsSuccessUpTo400(status) == status <= 400

\* success with < 500
IsSuccessBelow500(status) == status < 500

\* lines 140, 159: success = status < 400
IsSuccess(status) == status < 400

\* backoff of 2 * attempt seconds
BackoffLinear(a) == 2 * a

\* line 166: 2 ** attempt
Backoff(a) == 2 ^ a

\* retry also after the last attempt
MoreAttemptsAlways(a, R) == a <= R

\* line 165: attempt < self.retries
MoreAttempts(a, R) == a < R

\* an error that is kept once recorded
RecordFirstError(prev, e) == IF prev.some THEN prev ELSE Some(StrOf(e))

\* line 163: last_error = str(e)
RecordError(prev, e) == Some(StrOf(e))

\* a try block that also raises for a 5xx status (raise_for_status)
RaisedAlsoOn5xx(o, parsed) ==
    \/ o.kind = "raise"
    \/ parsed.raised
    \/ (o.kind = "response" /\ o.status >= 500)

\* lines 120-160: the try block leaves by an exception when the transport call
\* raises or when parsing the body raises
Raised(o, parsed) == o.kind = "raise" \/ parsed.raised

\* dict(response.headers)
HeadersOf(o) == {<<"Content-Type", o.ctype>>}

\* APIResponse
Envelope(st, data, headers, rt, success, error) ==
    [status_code |-> st, data |-> data, headers |-> headers,
     response_time |-> rt, success |-> success, error |-> error]

\* no APIResponse yet
NoResult == Envelope(-1, None, {}, 0, FALSE, None)

\* _make_request not called:
\*   pc          "idle", "loop", "returned" (an APIResponse) or "raised"
\*   attempt, last_error, start_time   the locals of _make_request
\*   result      the APIResponse returned
\*   calls       history: the number of transport calls
\*   sleeps      history: the asyncio.sleep backoffs, in order
\*   waits       history: the time.sleep rate-limit waits, in order
\*   sent        history: the times at which the transport calls started
\*   gate        history: _apply_rate_limit of each attempt: the attempt index,
\*               the time of the can_proceed call and its result, the
\*               limiter's list before and after it, the time slept, and the
\*               branch (session or not) the transport call then took
\*   trace       history: the transport outcomes, in order
NoRequest ==
    [pc |-> "idle", attempt |-> 0, last_error |-> None, start_time |-> 0,
     result |-> NoResult, calls |-> 0, sleeps |-> <<>>, waits |-> <<>>,
     sent |-> <<>>, gate |-> <<>>, trace |-> <<>>]

\* _apply_rate_limit that asks can_proceed again after the wait
ApplyRateLimitRechecks(reqs, t, N, W) ==
    LET cp == CanProceed(reqs, t, N, W)
        wait == IF cp.ok THEN 0 ELSE WaitTime(cp.reqs, t, W)
    IN  [ok |-> cp.ok, wait |-> wait,
         reqs |-> IF cp.ok THEN cp.reqs
                  ELSE CanProceed(cp.reqs, t + wait, N, W).reqs]

\* lines 97-102: _apply_rate_limit at time t: what can_proceed returned, the
\* limiter's list after it, and the time slept
ApplyRateLimit(reqs, t, N, W) ==
    LET cp == CanProceed(reqs, t, N, W)
    IN  [ok |-> cp.ok, reqs |-> cp.reqs,
         wait |-> IF cp.ok THEN 0 ELSE WaitTime(cp.reqs, t, W)]

\* a request, the limiter's timestamps and the clock
World(r, reqs, t) == [req |-> r, requests |-> reqs, now |-> t]

\* lines 113-117: _make_request is entered at time w.now
DoBegin(w) ==
    [w EXCEPT !.req = [NoRequest EXCEPT !.pc = "loop", !.start_time = w.now]]

\* lines 119-166: one iteration of the loop with transport outcome o, on the
\* session path (sess) or the session-less path, with rate limit N per W
\* seconds and R retries: _apply_rate_limit, the transport call, then the
\* return of an APIResponse or the except clause with its backoff
DoAttempt(w, o, sess, N, W, R) ==
    LET r == w.req
        cp == ApplyRateLimit(w.requests, w.now, N, W)
        wait == cp.wait
        t_done == w.now + wait + Latency(o)
        parsed == IF sess THEN ParseAsync(o) ELSE ParseSync(o)
        raised == Raised(o, parsed)
        e == IF o.kind = "raise" THEN o.exc ELSE "JSONDecodeError"
        r1 == [r EXCEPT !.calls = @ + 1,
                        !.trace = Append(@, o),
                        !.waits = IF wait > 0 THEN Append(@, wait) ELSE @,
                        !.sent = Append(@, w.now + wait),
                        !.gate = Append(@, [attempt |-> r.attempt, t |-> w.now,
                                            ok |-> cp.ok, before |-> w.requests,
                                            after |-> cp.reqs, wait |-> wait,
                                            sess |-> sess])]
    IN  IF ~raised
        THEN World([r1 EXCEPT !.pc = "returned",
                              !.result = Envelope(o.status, parsed.data, HeadersOf(o),
                                                  t_done - r.start_time,
                                                  IsSuccess(o.status), None)],
                   cp.reqs, t_done)
        ELSE IF ~Catches(e)
        THEN World([r1 EXCEPT !.pc = "raised"], cp.reqs, t_done)
        ELSE IF MoreAttempts(r.attempt, R)
        THEN World([r1 EXCEPT !.last_error = RecordError(r.last_error, e),
                              !.attempt = @ + 1,
                              !.sleeps = Append(@, Backoff(r.attempt))],
                   cp.reqs, t_done + Backoff(r.attempt))
        ELSE World([r1 EXCEPT !.last_error = RecordError(r.last_error, e),
                              !.attempt = @ + 1],
                   cp.reqs, t_done)

\* lines 168-176: the loop is exhausted
DoExhaust(w) ==
    [w EXCEPT !.req.pc = "returned",
              !.req.result = Envelope(0, None, {}, w.now - w.req.start_time,
                                      FALSE, w.req.last_error)]

\* the client between requests
ClientIdle ==
    /\ session = FALSE
    /\ req = NoRequest
    /\ nreq = 0
    /\ twin = World(NoRequest, <<>>, 0)

(***************************************************************************)
(* The request line: url and merged_headers                                *)
(*                                                                         *)
(* A string is a sequence of characters; only "/" is told apart from the   *)
(* other characters. A dict of headers is a function from names to values. *)
(***************************************************************************)
Slash == "/"

\* a strip of at most one trailing '/'
RStripOnce(s) ==
    IF s # <<>> /\ s[Len(s)] = Slash THEN SubSeq(s, 1, Len(s) - 1) ELSE s

RECURSIVE RStrip(_)
\* line 67: base_url.rstrip('/')
RStrip(s) ==
    IF s # <<>> /\ s[Len(s)] = Slash THEN RStrip(SubSeq(s, 1, Len(s) - 1)) ELSE s

RECURSIVE LStrip(_)
\* line 113: endpoint.lstrip('/')
LStrip(s) ==
    IF s # <<>> /\ Head(s) = Slash THEN LStrip(Tail(s)) ELSE s

\* line 113: f"{self.base_url}/{endpoint.lstrip('/')}"
Url(base, endpoint) == base \o <<Slash>> \o LStrip(endpoint)

\* {}
EmptyDict == [k \in {} |-> ""]

\* headers: Optional[Dict[str, str]] = None
NoHeaders == [some |-> FALSE, val |-> EmptyDict]
SomeHeaders(d) == [some |-> TRUE, val |-> d]

\* d[k] = v
SetItem(d, k, v) == [x \in DOMAIN d \cup {k} |-> IF x = k THEN v ELSE d[x]]

\* line 81: the truth value of auth_token, an Optional[str]
Truthy(tok) == tok.some /\ tok.val # ""

\* lines 75-79
BaseHeaders ==
    [k \in {"Content-Type", "Accept", "User-Agent"} |->
        IF k = "User-Agent" THEN "TaaP-Test-Client/1.0" ELSE "application/json"]

\* lines 75-82: self.default_headers after __init__
DefaultHeaders(tok) ==
    IF Truthy(tok)
    THEN SetItem(BaseHeaders, "Authorization", "Bearer " \o tok.val)
    ELSE BaseHeaders

\* {**h, **d}: the defaults win
MergeDefaultsWin(d, h) ==
    [k \in DOMAIN d \cup DOMAIN h |-> IF k \in DOMAIN d THEN d[k] ELSE h[k]]

\* {**d, **h}
Merge(d, h) ==
    [k \in DOMAIN d \cup DOMAIN h |-> IF k \in DOMAIN h THEN h[k] ELSE d[k]]

\* line 114: {**self.default_headers, **(headers or {})}
MergedHeaders(defaults, h) ==
    Merge(defaults, IF h.some THEN h.val ELSE EmptyDict)

\* _make_request not called
NoBuilt ==
    [called |-> FALSE, endpoint |-> <<>>, headers |-> NoHeaders, url |-> <<>>,
     merged_headers |-> EmptyDict, defaults_before |-> EmptyDict]

\* the request line is not under study: a client of base_url "" and no token
BuildIdle ==
    /\ ctor = [base_url |-> <<>>, auth_token |-> None]
    /\ base_url = RStrip(ctor.base_url)
    /\ default_headers = DefaultHeaders(ctor.auth_token)
    /\ built = NoBuilt

(***************************************************************************)
(* Values of the parts of the model that a specification leaves at rest    *)
(***************************************************************************)
\* no _make_request runs on the event loop
\*   at       the call the thread is in: "idle" (no request), "ready" (at
\*            the top of the retry loop), "time.sleep", "session.request",
\*            "asyncio.sleep" or "done"
\*   attempt  the loop variable of _make_request
\*   wake     the time at which the sleep in progress ends
\*   ran      history: the steps the other task of the loop has taken
NoLoop == [at |-> "idle", attempt |-> 0, wake |-> 0, ran |-> 0]

\* no thread is inside can_proceed
\*   pc      "idle", or the statement of can_proceed the thread is at
\*   now     the local now of can_proceed
\*   pruned  the pruned list, evaluated and not yet stored
\*   calls   history: the can_proceed calls of the thread so far
ThreadIdle == [pc |-> "idle", now |-> 0, pruned |-> <<>>, calls |-> 0]

\* PodStatus
PodStatus(name, phase, ready) ==
    [name |-> name, namespace |-> "default", phase |-> phase, ready |-> ready,
     restart_count |-> 0, node_name |-> "test-node"]

\* Optional[PodStatus]
NoStatus == [some |-> FALSE, val |-> PodStatus("", "", FALSE)]
SomeStatus(st) == [some |-> TRUE, val |-> st]

\* a pod_spec: its "metadata" key is absent, maps to None ("null") or maps to
\* a dict, which has a "name" or not
PodSpec(metadata, name) == [metadata |-> metadata, name |-> name]

\* no pod_spec
NoSpec == PodSpec("absent", None)

\* no KubernetesManager call yet:
\*   op, spec, name, yaml   the method called and its argument
\*   ret_name, ret_ok, ret_status, ret_list   the value returned by create_pod,
\*                     delete_pod, get_pod_status, list_pods
\*   before            _pods before the call
NoCall ==
    [op |-> "none", spec |-> NoSpec, name |-> "", yaml |-> <<>>,
     ret_name |-> None, ret_ok |-> FALSE, ret_status |-> NoStatus,
     ret_list |-> <<>>, before |-> <<>>]

\* KubernetesManager.__init__: self._pods = {}
PodsIdle ==
    /\ pods = <<>>
    /\ live = {}
    /\ k8s_last = NoCall

\* no DockerManager call yet:
\*   op, name     the method called and its name argument
\*   detach       the detach argument of create_container
\*   sdk          how the Docker SDK calls of the method ended: "ok", or
\*                "raise" when one of them raised
\*   ret_id, ret_ok, ret_val   the value returned by create_container, by
\*                stop_container / remove_container, and by
\*                get_container_status / get_container_logs
\*   raised       the method raised instead of returning
\*   before       _containers before the call
NoDockerCall ==
    [op |-> "none", name |-> "", detach |-> TRUE, sdk |-> "ok", ret_id |-> None,
     ret_ok |-> FALSE, ret_val |-> None, raised |-> FALSE, before |-> <<>>]

\* DockerManager.__init__: self._containers = {}
DockerIdle ==
    /\ containers = <<>>
    /\ docker_last = NoDockerCall

\* the sections of Config
Sections == {"database", "redis", "api", "container", "monitoring"}

\* attributes of the section's dataclass, two of database and one of each
\* other section
Fields(section) ==
    CASE section = "database" -> {"host", "port"}
      [] section = "redis" -> {"host"}
      [] section = "api" -> {"base_url"}
      [] section = "container" -> {"namespace"}
      [] section = "monitoring" -> {"log_level"}

\* the dataclass defaults of these attributes
Default(section, key) ==
    CASE section = "database" /\ key = "host" -> "localhost"
      [] section = "database" /\ key = "port" -> "5432"
      [] section = "redis" -> "localhost"
      [] section = "api" -> "http://localhost:8080"
      [] section = "container" -> "default"
      [] section = "monitoring" -> "INFO"

\* Config.__init__, lines 74-78: every section at its defaults
DefaultConfig ==
    [section \in Sections |-> [key \in Fields(section) |-> Default(section, key)]]

\* a config file: it is missing, is not YAML ("invalid"), is empty (loads as
\* None), or is a mapping from section names to section contents
ConfigFile(kind, data) == [kind |-> kind, data |-> data]

\* no load_from_file call
NoLoad ==
    [called |-> FALSE, file |-> ConfigFile("missing", EmptyDict), raised |-> ""]

\* Config.__init__ without config_file
ConfigIdle ==
    /\ config = DefaultConfig
    /\ config_load = NoLoad

\* no request on an event loop, no thread inside can_proceed, no pod, no
\* container, the session not closed
RestIdle ==
    /\ loop = NoLoop
    /\ thr = [i \in 1 .. NThreads |-> ThreadIdle]
    /\ admitted = <<>>
    /\ PodsIdle
    /\ closed = FALSE
    /\ DockerIdle

\* the parts of the model outside the limiter and the request loop, at rest
ExtIdle ==
    /\ BuildIdle
    /\ RestIdle
    /\ ConfigIdle

\* the last two elements of s
LastTwo(s) == IF Len(s) <= 2 THEN s ELSE SubSeq(s, Len(s) - 1, Len(s))

(***************************************************************************)
(* The limiter on its own                                                  *)
(***************************************************************************)
\* RateLimiter.__init__: any max_requests, any positive window, no timestamps
RLInit ==
    /\ retries = 0
    /\ ClientIdle
    /\ max_requests \in 0..MaxRequests
    /\ time_window \in 1..MaxWindow
    /\ requests = <<>>
    /\ now = 0
    /\ rl_log = <<>>
    /\ cp_last = [called |-> FALSE, t |-> 0, ok |-> FALSE, before |-> <<>>]
    /\ wt_last = [called |-> FALSE, t |-> 0, ret |-> 0, before |-> <<>>,
                  after |-> <<>>]
    /\ wt_hist = <<>>
    /\ ExtIdle

\* the windows a caller can pass to RateLimiter.__init__
AnyWindow == -1 .. MaxWindow

\* RateLimiter.__init__(max_requests, time_window): the fields it assigns
RateLimiterInit(N, W) ==
    [max_requests |-> N, time_window |-> W, requests |-> <<>>]

\* RateLimiter.__init__ with any window a caller can pass
RLInitAny ==
    /\ retries = 0
    /\ ClientIdle
    /\ \E N \in 0..MaxRequests, W \in AnyWindow :
          LET rl == RateLimiterInit(N, W)
          IN  /\ max_requests = rl.max_requests
              /\ time_window = rl.time_window
              /\ requests = rl.requests
    /\ now = 0
    /\ rl_log = <<>>
    /\ cp_last = [called |-> FALSE, t |-> 0, ok |-> FALSE, before |-> <<>>]
    /\ wt_last = [called |-> FALSE, t |-> 0, ret |-> 0, before |-> <<>>,
                  after |-> <<>>]
    /\ wt_hist = <<>>
    /\ ExtIdle

\* a call of can_proceed
RLCanProceed ==
    /\ Len(rl_log) < MaxCalls
    /\ LET r == CanProceed(requests, now, max_requests, time_window)
       IN  /\ requests' = r.reqs
           /\ rl_log' = Append(rl_log, [t |-> now, ok |-> r.ok])
           /\ cp_last' = [called |-> TRUE, t |-> now, ok |-> r.ok, before |-> requests]
           /\ wt_hist' = IF r.ok THEN <<>> ELSE wt_hist
    /\ UNCHANGED <<max_requests, time_window, now, wt_last, client_vars, ext_vars>>

\* a call of wait_time
RLWaitTime ==
    /\ requests' = requests
    /\ LET ret == WaitTime(requests, now, time_window)
       IN  /\ wt_last' = [called |-> TRUE, t |-> now, ret |-> ret,
                          before |-> requests, after |-> requests']
           /\ wt_hist' = LastTwo(Append(wt_hist, [t |-> now, ret |-> ret]))
    /\ UNCHANGED <<max_requests, time_window, now, rl_log, cp_last,
                   client_vars, ext_vars>>

\* the clock advances by one second
RLTick ==
    /\ now < MaxNow
    /\ now' = now + 1
    /\ UNCHANGED <<max_requests, time_window, requests, rl_log, cp_last, wt_last,
                   wt_hist, client_vars, ext_vars>>

RLNext == RLCanProceed \/ RLWaitTime \/ RLTick

\* the limiter on its own, under any sequence of calls and a non-decreasing clock
SpecRL == RLInit /\ [][RLNext]_vars

\* the same, for a limiter constructed with any window
SpecRLAny == RLInitAny /\ [][RLNext]_vars

(***************************************************************************)
(* APIClient                                                               *)
(***************************************************************************)
\* APIClient.__init__: RateLimiter(rate_limit, 60), session = None
Init ==
    /\ max_requests \in 0..MaxRateLimit
    /\ time_window = ClientWindow
    /\ requests = <<>>
    /\ now = 0
    /\ rl_log = <<>>
    /\ cp_last = [called |-> FALSE, t |-> 0, ok |-> FALSE, before |-> <<>>]
    /\ wt_last = [called |-> FALSE, t |-> 0, ret |-> 0, before |-> <<>>,
                  after |-> <<>>]
    /\ wt_hist = <<>>
    /\ ExtIdle
    /\ retries \in 0..MaxRetries
    /\ ClientIdle

\* the world of the client
Here == World(req, requests, now)

\* the client's world becomes w
Becomes(w) ==
    /\ req' = w.req
    /\ requests' = w.requests
    /\ now' = w.now

\* __aenter__: the aiohttp session is created
AEnter ==
    /\ req.pc # "loop"
    /\ session' = TRUE
    /\ closed' = FALSE
    /\ UNCHANGED <<rl_vars, build_vars, loop, thread_vars, pod_vars,
                   docker_vars, config_vars, retries, req, nreq, twin>>

\* _make_request is called
Begin ==
    /\ req.pc # "loop"
    /\ nreq < MaxReqs
    /\ Becomes(DoBegin(Here))
    /\ nreq' = nreq + 1
    /\ UNCHANGED <<max_requests, time_window, rl_log, cp_last, wt_last,
                   wt_hist, ext_vars, retries, session, twin>>

\* one iteration of the loop, with transport outcome o
Attempt(o) ==
    /\ req.pc = "loop"
    /\ req.attempt <= retries
    /\ Becomes(DoAttempt(Here, o, session, max_requests, time_window, retries))
    /\ UNCHANGED <<max_requests, time_window, rl_log, cp_last, wt_last,
                   wt_hist, ext_vars, retries, session, nreq, twin>>

\* the loop ends without a response
Exhaust ==
    /\ req.pc = "loop"
    /\ req.attempt > retries
    /\ Becomes(DoExhaust(Here))
    /\ UNCHANGED <<max_requests, time_window, rl_log, cp_last, wt_last,
                   wt_hist, ext_vars, retries, session, nreq, twin>>

Next ==
    \/ AEnter
    \/ Begin
    \/ \E o \in Outcomes : Attempt(o)
    \/ Exhaust

Spec == Init /\ [][Next]_vars

\* __aexit__ that forgets the session it closed
AExitClearsSession ==
    /\ req.pc # "loop"
    /\ session' = FALSE
    /\ closed' = (session \/ closed)
    /\ UNCHANGED <<rl_vars, build_vars, loop, thread_vars, pod_vars,
                   docker_vars, config_vars, retries, req, nreq, twin>>

\* __aexit__: the session, if there is one, is closed; self.session keeps it
AExit ==
    /\ req.pc # "loop"
    /\ closed' = (session \/ closed)
    /\ UNCHANGED <<rl_vars, build_vars, loop, thread_vars, pod_vars,
                   docker_vars, config_vars, retries, session, req, nreq, twin>>

\* the transport outcomes drawn for the choice of the branch: a closed
\* aiohttp session refuses the request, otherwise one response and one failure
SessionOutcomes ==
    IF session /\ closed
    THEN {Raise("RuntimeError")}
    ELSE {Response(200, Json, TRUE), Raise("ConnectionError")}

\* the client used inside and outside of 'async with'
SessionNext ==
    \/ AEnter
    \/ AExit
    \/ Begin
    \/ \E o \in SessionOutcomes : Attempt(o)
    \/ Exhaust

SpecSession == Init /\ [][SessionNext]_vars

(***************************************************************************)
(* The two transport paths side by side: the client runs a request on its   *)
(* path while the twin runs the same request on the other path, each with   *)
(* a limiter and a clock of its own, and every transport call of the two    *)
(* gets the same outcome.                                                   *)
(***************************************************************************)
\* r can make an attempt
CanAttempt(r) == r.pc = "loop" /\ r.attempt <= retries

\* r has left its loop without a response
IsExhausted(r) == r.pc = "loop" /\ r.attempt > retries

\* _make_request is called on both paths
EqBegin ==
    /\ req.pc # "loop"
    /\ twin.req.pc # "loop"
    /\ nreq < MaxReqs
    /\ Becomes(DoBegin(Here))
    /\ twin' = DoBegin(twin)
    /\ nreq' = nreq + 1
    /\ UNCHANGED <<max_requests, time_window, rl_log, cp_last, wt_last,
                   wt_hist, ext_vars, retries, session>>

\* the next transport call of each path that is still in its loop has outcome o
EqAttempt(o) ==
    /\ CanAttempt(req) \/ CanAttempt(twin.req)
    /\ IF CanAttempt(req)
       THEN Becomes(DoAttempt(Here, o, session, max_requests, time_window, retries))
       ELSE UNCHANGED <<req, requests, now>>
    /\ twin' = IF CanAttempt(twin.req)
               THEN DoAttempt(twin, o, ~session, max_requests, time_window, retries)
               ELSE twin
    /\ UNCHANGED <<max_requests, time_window, rl_log, cp_last, wt_last,
                   wt_hist, ext_vars, retries, session, nreq>>

\* each path whose loop is exhausted returns
EqExhaust ==
    /\ IsExhausted(req) \/ IsExhausted(twin.req)
    /\ IF IsExhausted(req)
       THEN Becomes(DoExhaust(Here))
       ELSE UNCHANGED <<req, requests, now>>
    /\ twin' = IF IsExhausted(twin.req) THEN DoExhaust(twin) ELSE twin
    /\ UNCHANGED <<max_requests, time_window, rl_log, cp_last, wt_last,
                   wt_hist, ext_vars, retries, session, nreq>>

\* __aenter__ between two requests
EqAEnter ==
    /\ twin.req.pc # "loop"
    /\ AEnter

EqNext ==
    \/ EqAEnter
    \/ EqBegin
    \/ \E o \in Outcomes : EqAttempt(o)
    \/ EqExhaust

SpecEquiv == Init /\ [][EqNext]_vars

(***************************************************************************)
(* One _make_request on the session path, call by call, with another task  *)
(* on the same event loop. An awaited call (session.request,               *)
(* asyncio.sleep) suspends the request's task and the loop runs the other  *)
(* task; a call that is not awaited keeps the loop's thread until it       *)
(* returns.                                                                *)
(***************************************************************************)
\* the calls that suspend the task: lines 124 and 166 are awaited
Awaited == {"session.request", "asyncio.sleep"}

\* the thread of the event loop is inside a call that does not yield to the loop
ThreadHeld == loop.at \notin Awaited \cup {"idle", "done"}

\* APIClient.__init__ and __aenter__: the session is set
LoopInit ==
    /\ max_requests \in 0..MaxRateLimit
    /\ time_window = ClientWindow
    /\ requests = <<>>
    /\ now = 0
    /\ rl_log = <<>>
    /\ cp_last = [called |-> FALSE, t |-> 0, ok |-> FALSE, before |-> <<>>]
    /\ wt_last = [called |-> FALSE, t |-> 0, ret |-> 0, before |-> <<>>,
                  after |-> <<>>]
    /\ wt_hist = <<>>
    /\ retries \in 0..MaxRetries
    /\ session = TRUE
    /\ req = NoRequest
    /\ nreq = 0
    /\ twin = World(NoRequest, <<>>, 0)
    /\ ExtIdle

\* what no step of this specification changes
LoopFrame ==
    UNCHANGED <<max_requests, time_window, rl_log, cp_last, wt_last, wt_hist,
                retries, session, req, twin, build_vars, thread_vars, pod_vars,
                more_vars>>

\* lines 113-119: _make_request is called and enters its loop
LpBegin ==
    /\ loop.at \in {"idle", "done"}
    /\ nreq < MaxReqs
    /\ nreq' = nreq + 1
    /\ loop' = [loop EXCEPT !.at = "ready", !.attempt = 0]
    /\ UNCHANGED <<requests, now>>
    /\ LoopFrame

\* lines 97-102, 121: _apply_rate_limit up to its time.sleep, or up to the
\* transport call when it does not sleep
LpApplyRateLimit ==
    /\ loop.at = "ready"
    /\ LET cp == CanProceed(requests, now, max_requests, time_window)
           wait == IF cp.ok THEN 0 ELSE WaitTime(cp.reqs, now, time_window)
       IN  /\ requests' = cp.reqs
           /\ loop' = IF wait > 0
                      THEN [loop EXCEPT !.at = "time.sleep", !.wake = now + wait]
                      ELSE [loop EXCEPT !.at = "session.request"]
    /\ UNCHANGED <<now, nreq>>
    /\ LoopFrame

\* line 102: time.sleep returns
LpSleepReturns ==
    /\ loop.at = "time.sleep"
    /\ now' = loop.wake
    /\ loop' = [loop EXCEPT !.at = "session.request"]
    /\ UNCHANGED <<requests, nreq>>
    /\ LoopFrame

\* lines 124-141: the awaited transport call completes with a response
LpResponse ==
    /\ loop.at = "session.request"
    /\ loop' = [loop EXCEPT !.at = "done"]
    /\ UNCHANGED <<requests, now, nreq>>
    /\ LoopFrame

\* lines 162-166: the awaited transport call raises; the task backs off or
\* the loop is exhausted
LpRaise ==
    /\ loop.at = "session.request"
    /\ loop' = IF MoreAttempts(loop.attempt, retries)
               THEN [loop EXCEPT !.at = "asyncio.sleep",
                                 !.wake = now + Backoff(loop.attempt)]
               ELSE [loop EXCEPT !.at = "done"]
    /\ UNCHANGED <<requests, now, nreq>>
    /\ LoopFrame

\* line 166: asyncio.sleep completes and the loop goes to its next iteration
LpBackoffEnds ==
    /\ loop.at = "asyncio.sleep"
    /\ now' = loop.wake
    /\ loop' = [loop EXCEPT !.at = "ready", !.attempt = @ + 1]
    /\ UNCHANGED <<requests, nreq>>
    /\ LoopFrame

\* the event loop runs a step of the other task
LpOther ==
    /\ ~ThreadHeld
    /\ loop.ran < MaxRan
    /\ loop' = [loop EXCEPT !.ran = @ + 1]
    /\ UNCHANGED <<requests, now, nreq>>
    /\ LoopFrame

LoopNext ==
    \/ LpBegin
    \/ LpApplyRateLimit
    \/ LpSleepReturns
    \/ LpResponse
    \/ LpRaise
    \/ LpBackoffEnds
    \/ LpOther

SpecLoop == LoopInit /\ [][LoopNext]_vars

(***************************************************************************)
(* Threads that share one RateLimiter. can_proceed holds no lock, so the   *)
(* threads interleave between its statements: the read of the clock, the   *)
(* evaluation of the pruned list, its store into self.requests, the count  *)
(* check and the append.                                                   *)
(***************************************************************************)
Threads == 1 .. NThreads

\* what no step of a thread changes
ThreadFrame ==
    UNCHANGED <<max_requests, time_window, rl_log, cp_last, wt_last, wt_hist,
                client_vars, build_vars, loop, pod_vars, more_vars>>

\* line 38: now = time.time()
ThEnter(i) ==
    /\ thr[i].pc = "idle"
    /\ thr[i].calls < MaxThreadCalls
    /\ thr' = [thr EXCEPT ![i].pc = "prune", ![i].now = now, ![i].calls = @ + 1]
    /\ UNCHANGED <<requests, now, admitted>>
    /\ ThreadFrame

\* line 40, right-hand side: the list comprehension over self.requests
ThPrune(i) ==
    /\ thr[i].pc = "prune"
    /\ thr' = [thr EXCEPT ![i].pc = "store",
                          ![i].pruned = Prune(requests, thr[i].now, time_window)]
    /\ UNCHANGED <<requests, now, admitted>>
    /\ ThreadFrame

\* line 40, assignment: self.requests = ...
ThStore(i) ==
    /\ thr[i].pc = "store"
    /\ requests' = thr[i].pruned
    /\ thr' = [thr EXCEPT ![i].pc = "check", ![i].pruned = <<>>]
    /\ UNCHANGED <<now, admitted>>
    /\ ThreadFrame

\* lines 42, 45: the count check, and return False when it fails
ThCheck(i) ==
    /\ thr[i].pc = "check"
    /\ thr' = [thr EXCEPT ![i].pc = IF CanAdmit(requests, max_requests)
                                    THEN "append" ELSE "idle"]
    /\ UNCHANGED <<requests, now, admitted>>
    /\ ThreadFrame

\* lines 43-44: self.requests.append(now); return True
ThAppend(i) ==
    /\ thr[i].pc = "append"
    /\ requests' = Append(requests, thr[i].now)
    /\ admitted' = Prune(Append(admitted, thr[i].now), now, time_window)
    /\ thr' = [thr EXCEPT ![i].pc = "idle"]
    /\ UNCHANGED now
    /\ ThreadFrame

\* the clock advances by one second; the admitted timestamps that age out
\* leave the history
ThTick ==
    /\ now < MaxThreadNow
    /\ now' = now + 1
    /\ admitted' = Prune(admitted, now + 1, time_window)
    /\ UNCHANGED <<requests, thr>>
    /\ ThreadFrame

ThNext ==
    \/ \E i \in Threads : ThEnter(i)
    \/ \E i \in Threads : ThPrune(i)
    \/ \E i \in Threads : ThStore(i)
    \/ \E i \in Threads : ThCheck(i)
    \/ \E i \in Threads : ThAppend(i)
    \/ ThTick

\* one limiter shared by NThreads threads
SpecThreads == RLInit /\ [][ThNext]_vars

(***************************************************************************)
(* The request line of _make_request: for a client constructed with any    *)
(* base_url and auth_token, any endpoint and any caller headers.           *)
(***************************************************************************)
\* the characters: '/' and one other
Chars == {Slash, "h"}

RECURSIVE Strings(_)
\* the strings of at most n characters
Strings(n) ==
    IF n = 0 THEN {<<>>}
    ELSE LET S == Strings(n - 1)
         IN  S \cup {Append(x, c) : x \in S, c \in Chars}

\* 'http://host:8080', '/users' and 'http://host:8080/users', the runs of
\* characters other than '/' written as one element each
ExampleBase == <<"http:", Slash, Slash, "host:8080">>
ExampleEndpoint == <<Slash, "users">>
ExampleUrl == <<"http:", Slash, Slash, "host:8080", Slash, "users">>

\* the base_url arguments drawn
BaseUrls == Strings(MaxLen) \cup {ExampleBase, Append(ExampleBase, Slash)}

\* the endpoint arguments drawn
Endpoints == Strings(MaxLen) \cup {ExampleEndpoint}

\* the auth_token arguments drawn
Tokens == {None, Some(""), Some("tok")}

\* the headers arguments drawn: None, {}, an override of a default, a new
\* name, and an override of Authorization together with a new name
CallerHeaders ==
    {NoHeaders,
     SomeHeaders(EmptyDict),
     SomeHeaders([k \in {"Accept"} |-> "text/plain"]),
     SomeHeaders([k \in {"X-Request-Id"} |-> "42"]),
     SomeHeaders([k \in {"Authorization", "X-Request-Id"} |->
                     IF k = "Authorization" THEN "Basic abc" ELSE "42"])}

\* APIClient.__init__(base_url, auth_token=...)
BuildInit ==
    /\ max_requests = MaxRateLimit
    /\ time_window = ClientWindow
    /\ requests = <<>>
    /\ now = 0
    /\ rl_log = <<>>
    /\ cp_last = [called |-> FALSE, t |-> 0, ok |-> FALSE, before |-> <<>>]
    /\ wt_last = [called |-> FALSE, t |-> 0, ret |-> 0, before |-> <<>>,
                  after |-> <<>>]
    /\ wt_hist = <<>>
    /\ retries = 0
    /\ ClientIdle
    /\ ctor \in [base_url : BaseUrls, auth_token : Tokens]
    /\ base_url = RStrip(ctor.base_url)
    /\ default_headers = DefaultHeaders(ctor.auth_token)
    /\ built = NoBuilt
    /\ RestIdle
    /\ ConfigIdle

\* lines 113-114: _make_request(method, endpoint, headers=h) computes url and
\* merged_headers
BuildRequest(endpoint, h) ==
    /\ built' = [called |-> TRUE, endpoint |-> endpoint, headers |-> h,
                 url |-> Url(base_url, endpoint),
                 merged_headers |-> MergedHeaders(default_headers, h),
                 defaults_before |-> default_headers]
    /\ default_headers' = default_headers
    /\ UNCHANGED <<ctor, base_url, rl_vars, client_vars, loop, thread_vars, pod_vars,
                   more_vars>>

BuildNext == \E endpoint \in Endpoints, h \in CallerHeaders : BuildRequest(endpoint, h)

SpecBuild == BuildInit /\ [][BuildNext]_vars

(***************************************************************************)
(* KubernetesManager (src/src/container_manager.py): the pods it tracks.   *)
(* _pods is a dict: a sequence of entries in insertion order, one per key. *)
(***************************************************************************)
\* the pod names drawn
PodNames == {"web", "db"}

\* the pod_spec arguments drawn: with a metadata name, with metadata and no
\* name, without metadata, and with metadata: None
PodSpecs ==
    {PodSpec("dict", Some(n)) : n \in PodNames}
        \cup {PodSpec("dict", None), PodSpec("absent", None), PodSpec("null", None)}

\* the name arguments drawn
NameArgs == PodNames \cup {"unknown"}

\* line 251: pod_spec.get("metadata", {}) is None, and None has no .get
CreateRaises(spec) == spec.metadata = "null"

\* line 251: pod_spec.get("metadata", {}).get("name", "unknown")
NameOf(spec) ==
    IF spec.metadata = "dict" /\ spec.name.some THEN spec.name.val ELSE "unknown"

\* the keys of the dict d
Keys(d) == {d[i].name : i \in DOMAIN d}

\* d[name] of a key of d
Item(d, name) == d[CHOOSE i \in DOMAIN d : d[i].name = name]

\* d[name] = entry that adds an entry even when the key is there
DictSetAppends(d, name, entry) == Append(d, entry)

\* d[name] = entry
DictSet(d, name, entry) ==
    IF name \in Keys(d)
    THEN [i \in DOMAIN d |-> IF d[i].name = name THEN entry ELSE d[i]]
    ELSE Append(d, entry)

\* del d[name]
DictDel(d, name) == SelectSeq(d, LAMBDA e : e.name # name)

\* lines 254-258: the entry of a created pod
PodEntry(name, spec) == [name |-> name, spec |-> spec, status |-> "Pending"]

\* lines 287-296, 307-316: the PodStatus of an entry
StatusOf(e) == PodStatus(e.name, e.status, e.status = "Running")

\* KubernetesManager.__init__
PodsInit ==
    /\ max_requests = MaxRateLimit
    /\ time_window = ClientWindow
    /\ requests = <<>>
    /\ now = 0
    /\ rl_log = <<>>
    /\ cp_last = [called |-> FALSE, t |-> 0, ok |-> FALSE, before |-> <<>>]
    /\ wt_last = [called |-> FALSE, t |-> 0, ret |-> 0, before |-> <<>>,
                  after |-> <<>>]
    /\ wt_hist = <<>>
    /\ retries = 0
    /\ ClientIdle
    /\ ExtIdle

\* what no KubernetesManager method changes
PodsFrame ==
    UNCHANGED <<rl_vars, client_vars, build_vars, loop, thread_vars, more_vars>>

\* create_pod(spec)
CreatePod(spec) ==
    /\ IF CreateRaises(spec)
       THEN /\ UNCHANGED <<pods, live>>
            /\ k8s_last' = [NoCall EXCEPT !.op = "create_pod", !.spec = spec,
                                          !.before = pods]
       ELSE LET name == NameOf(spec)
            IN  /\ pods' = DictSet(pods, name, PodEntry(name, spec))
                /\ live' = live \cup {name}
                /\ k8s_last' = [NoCall EXCEPT !.op = "create_pod", !.spec = spec,
                                              !.ret_name = Some(name),
                                              !.before = pods]
    /\ PodsFrame

\* a document of a YAML text, as yaml.safe_load_all yields it:
\*   "empty"    None or another false value (an empty document, {}, [])
\*   "Pod"      a dict whose kind is "Pod", with the pod_spec it is
\*   "Service"  a dict of another kind, or without kind
\*   "scalar"   a true value that is no dict (a string, a number, a list)
\*   "error"    the text cannot be parsed from here on: the generator raises
YamlDoc(kind, spec) == [kind |-> kind, spec |-> spec]

\* the Pod documents drawn: with a metadata name, and with metadata: null
YamlPodSpecs ==
    {PodSpec("dict", Some(n)) : n \in PodNames} \cup {PodSpec("null", None)}

\* the documents drawn
YamlDocs ==
    {YamlDoc(k, NoSpec) : k \in {"empty", "Service", "scalar", "error"}}
        \cup {YamlDoc("Pod", spec) : spec \in YamlPodSpecs}

RECURSIVE YamlTexts(_)
\* the YAML texts of at most n documents
YamlTexts(n) ==
    IF n = 0 THEN {<<>>}
    ELSE LET S == YamlTexts(n - 1)
         IN  S \cup {Append(x, doc) : x \in S, doc \in YamlDocs}

\* line 326: resource and resource.get("kind") == "Pod"
IsPodDoc(doc) == doc.kind = "Pod"

\* line 326: a true value without .get raises AttributeError; line 325: the
\* generator raises yaml.YAMLError
DocRaises(doc) == doc.kind \in {"scalar", "error"}

\* create_pod(spec) on the dict d: the new dict and the name created, if any
DoCreatePod(d, spec) ==
    IF CreateRaises(spec)
    THEN [pods |-> d, created |-> {}]
    ELSE [pods |-> DictSet(d, NameOf(spec), PodEntry(NameOf(spec), spec)),
          created |-> {NameOf(spec)}]

RECURSIVE DoApplyYaml(_, _, _)
\* lines 323-334: the loop of apply_yaml over the documents left, from the
\* dict d, with the names created so far
DoApplyYaml(d, docs, created) ==
    IF docs = <<>> THEN [pods |-> d, created |-> created, ret |-> TRUE]
    ELSE IF DocRaises(Head(docs)) THEN [pods |-> d, created |-> created, ret |-> FALSE]
    ELSE IF IsPodDoc(Head(docs))
    THEN LET c == DoCreatePod(d, Head(docs).spec)
         IN  DoApplyYaml(c.pods, Tail(docs), created \cup c.created)
    ELSE DoApplyYaml(d, Tail(docs), created)

\* apply_yaml(yaml_content)
ApplyYaml(docs) ==
    /\ LET r == DoApplyYaml(pods, docs, {})
       IN  /\ pods' = r.pods
           /\ live' = live \cup r.created
           /\ k8s_last' = [NoCall EXCEPT !.op = "apply_yaml", !.yaml = docs,
                                         !.ret_ok = r.ret, !.before = pods]
    /\ PodsFrame

\* delete_pod(name)
DeletePod(name) ==
    /\ pods' = IF name \in Keys(pods) THEN DictDel(pods, name) ELSE pods
    /\ live' = live \ {name}
    /\ k8s_last' = [NoCall EXCEPT !.op = "delete_pod", !.name = name,
                                  !.ret_ok = TRUE, !.before = pods]
    /\ PodsFrame

\* get_pod_status(name)
GetPodStatus(name) ==
    /\ k8s_last' = [NoCall EXCEPT !.op = "get_pod_status", !.name = name,
                                  !.ret_status = IF name \notin Keys(pods)
                                                 THEN NoStatus
                                                 ELSE SomeStatus(StatusOf(Item(pods, name))),
                                  !.before = pods]
    /\ UNCHANGED <<pods, live>>
    /\ PodsFrame

\* list_pods()
ListPods ==
    /\ k8s_last' = [NoCall EXCEPT !.op = "list_pods",
                                  !.ret_list = [i \in DOMAIN pods |-> StatusOf(pods[i])],
                                  !.before = pods]
    /\ UNCHANGED <<pods, live>>
    /\ PodsFrame

PodsNext ==
    \/ \E spec \in PodSpecs : CreatePod(spec)
    \/ \E name \in NameArgs : DeletePod(name)
    \/ \E name \in NameArgs : GetPodStatus(name)
    \/ ListPods
    \/ \E docs \in YamlTexts(MaxDocs) : ApplyYaml(docs)

SpecPods == PodsInit /\ [][PodsNext]_vars

(***************************************************************************)
(* DockerManager (src/src/container_manager.py)                            *)
(*                                                                         *)
(* _containers is a dict from names to the objects containers.run          *)
(* returned, kept in insertion order. What the Docker SDK does is not the  *)
(* manager's: every SDK call either returns or raises.                     *)
(***************************************************************************)
\* the name arguments drawn
ContainerNames == {"test-a", "test-b"}

\* the ids the daemon gives to containers
ContainerIds == {"c1", "c2"}

\* a docker Container object
Container(id) == [kind |-> "Container", id |-> id]

\* what containers.run returns with detach=False: the output of the container
LogBytes == [kind |-> "bytes", id |-> ""]

\* an item of _containers
ContainerEntry(name, obj) == [name |-> name, obj |-> obj]

\* how the SDK calls of one method end
SdkOutcomes == {"ok", "raise"}

\* lines 113-116, 129-133, 146-149, 170-173: the object the method works on,
\* the tracked one or the one client.containers.get returns
Target(d, name) ==
    IF name \in Keys(d) THEN Item(d, name).obj ELSE Container("")

\* the try block raises: an SDK call raises, or the tracked object is no
\* Container and has no such method (AttributeError)
Fails(d, name, sdk) == sdk = "raise" \/ Target(d, name).kind # "Container"

\* lines 91-108: create_container: the new _containers and the returned value
DoCreateContainer(d, name, detach, sdk, id) ==
    IF sdk = "raise"
    THEN [containers |-> d, ret |-> None]
    ELSE IF detach
    THEN [containers |-> DictSet(d, name, ContainerEntry(name, Container(id))),
          ret |-> Some(id)]
    ELSE [containers |-> DictSet(d, name, ContainerEntry(name, LogBytes)),
          ret |-> None]

\* remove_container that untracks the name after the SDK has removed it
DoRemoveContainerAfterSdk(d, name, sdk) ==
    [containers |-> IF Fails(d, name, sdk) THEN d ELSE DictDel(d, name),
     ok |-> ~Fails(d, name, sdk)]

\* lines 128-141: remove_container: the new _containers and the returned value
DoRemoveContainer(d, name, sdk) ==
    [containers |-> IF name \in Keys(d) THEN DictDel(d, name) ELSE d,
     ok |-> ~Fails(d, name, sdk)]

\* DockerManager()
DockerInit ==
    /\ max_requests = MaxRateLimit
    /\ time_window = ClientWindow
    /\ requests = <<>>
    /\ now = 0
    /\ rl_log = <<>>
    /\ cp_last = [called |-> FALSE, t |-> 0, ok |-> FALSE, before |-> <<>>]
    /\ wt_last = [called |-> FALSE, t |-> 0, ret |-> 0, before |-> <<>>,
                  after |-> <<>>]
    /\ wt_hist = <<>>
    /\ retries = 0
    /\ ClientIdle
    /\ ExtIdle

\* a DockerManager method leaves the rest alone
DockerFrame ==
    UNCHANGED <<rl_vars, client_vars, build_vars, loop, thread_vars, pod_vars,
                closed, config_vars>>

\* the record of a call
DockerCall(op, name, sdk) ==
    [NoDockerCall EXCEPT !.op = op, !.name = name, !.sdk = sdk,
                         !.before = containers]

\* create_container(image, name, detach=detach)
CreateContainer(name, detach, sdk, id) ==
    LET c == DoCreateContainer(containers, name, detach, sdk, id)
    IN  /\ containers' = c.containers
        /\ docker_last' = [DockerCall("create", name, sdk) EXCEPT
                               !.detach = detach, !.ret_id = c.ret]
        /\ DockerFrame

\* stop_container(name)
StopContainer(name, sdk) ==
    /\ docker_last' = [DockerCall("stop", name, sdk) EXCEPT
                           !.ret_ok = ~Fails(containers, name, sdk)]
    /\ UNCHANGED containers
    /\ DockerFrame

\* remove_container(name)
RemoveContainer(name, sdk) ==
    LET c == DoRemoveContainer(containers, name, sdk)
    IN  /\ containers' = c.containers
        /\ docker_last' = [DockerCall("remove", name, sdk) EXCEPT !.ret_ok = c.ok]
        /\ DockerFrame

\* get_container_status(name)
GetContainerStatus(name, sdk) ==
    /\ docker_last' = [DockerCall("status", name, sdk) EXCEPT
                           !.ret_val = IF Fails(containers, name, sdk) THEN None
                                       ELSE Some("ContainerStatus")]
    /\ UNCHANGED containers
    /\ DockerFrame

\* get_container_logs(name)
GetContainerLogs(name, sdk) ==
    /\ docker_last' = [DockerCall("logs", name, sdk) EXCEPT
                           !.ret_val = IF Fails(containers, name, sdk) THEN None
                                       ELSE Some("logs")]
    /\ UNCHANGED containers
    /\ DockerFrame

DockerNext ==
    \E name \in ContainerNames, sdk \in SdkOutcomes :
        \/ \E detach \in BOOLEAN, id \in ContainerIds :
              CreateContainer(name, detach, sdk, id)
        \/ StopContainer(name, sdk)
        \/ RemoveContainer(name, sdk)
        \/ GetContainerStatus(name, sdk)
        \/ GetContainerLogs(name, sdk)

SpecDocker == DockerInit /\ [][DockerNext]_vars

(***************************************************************************)
(* Config.load_from_file (src/src/config.py)                               *)
(***************************************************************************)
\* the contents of a section in a file: null (the section is named and has
\* no keys under it), or a mapping of keys to values
SectionData(null, items) == [null |-> null, items |-> items]

\* the keys a file can give in a section: attributes of the dataclass and one
\* key that is no attribute
FileKeys(section) == Fields(section) \cup {"bogus"}

\* the section contents drawn: every value in a file is "custom"
SectionDatas(section) ==
    {SectionData(TRUE, EmptyDict)}
        \cup {SectionData(FALSE, [key \in K |-> "custom"]) : K \in SUBSET FileKeys(section)}

\* what a file says of a section: <<FALSE, ...>> when it does not name the
\* section, <<TRUE, contents>> when it does
SectionChoices(section) ==
    {<<FALSE, SectionData(FALSE, EmptyDict)>>}
        \cup {<<TRUE, d>> : d \in SectionDatas(section)}

\* the mapping of a file that says ch[section] of each section
MappingOf(ch) ==
    [section \in {x \in Sections : ch[x][1]} |-> ch[section][2]]

\* the files drawn that are no mapping
OtherFiles == {ConfigFile(kind, EmptyDict) : kind \in {"missing", "invalid", "empty"}}

\* lines 91-100: the order of the section tests
SectionOrder == <<"database", "redis", "api", "container", "monitoring">>

\* line 132: hasattr(obj, key)
HasAttr(section, key) == key \in Fields(section)

\* lines 129-133: _update_dataclass(obj, data) for a dict data
UpdateDataclass(obj, section, items) ==
    [key \in DOMAIN obj |->
        IF key \in DOMAIN items /\ HasAttr(section, key) THEN items[key] ELSE obj[key]]

RECURSIVE DoLoadSections(_, _, _)
\* lines 91-100: the section tests left, on the config c: the new config and
\* the exception that ended the call, if any (None has no .items)
DoLoadSections(c, data, order) ==
    IF order = <<>> THEN [config |-> c, raised |-> ""]
    ELSE LET section == Head(order)
         IN  IF section \notin DOMAIN data
             THEN DoLoadSections(c, data, Tail(order))
             ELSE IF data[section].null
             THEN [config |-> c, raised |-> "AttributeError"]
             ELSE DoLoadSections(
                      [c EXCEPT ![section] = UpdateDataclass(@, section, data[section].items)],
                      data, Tail(order))

\* lines 85-105: load_from_file on the config c
DoLoadFromFile(c, file) ==
    CASE file.kind = "missing" -> [config |-> c, raised |-> ""]
      [] file.kind = "invalid" -> [config |-> c, raised |-> ""]
      [] file.kind = "empty" -> [config |-> c, raised |-> "TypeError"]
      [] file.kind = "mapping" -> DoLoadSections(c, file.data, SectionOrder)

\* Config.__init__(config_file) up to line 80, for any file
ConfigInit ==
    /\ max_requests = MaxRateLimit
    /\ time_window = ClientWindow
    /\ requests = <<>>
    /\ now = 0
    /\ rl_log = <<>>
    /\ cp_last = [called |-> FALSE, t |-> 0, ok |-> FALSE, before |-> <<>>]
    /\ wt_last = [called |-> FALSE, t |-> 0, ret |-> 0, before |-> <<>>,
                  after |-> <<>>]
    /\ wt_hist = <<>>
    /\ retries = 0
    /\ ClientIdle
    /\ BuildIdle
    /\ RestIdle
    /\ config = DefaultConfig
    /\ \/ \E file \in OtherFiles : config_load = [NoLoad EXCEPT !.file = file]
       \/ \E d \in SectionChoices("database"), r \in SectionChoices("redis"),
             a \in SectionChoices("api"), c \in SectionChoices("container"),
             m \in SectionChoices("monitoring") :
             LET ch == [section \in Sections |->
                           CASE section = "database" -> d
                             [] section = "redis" -> r
                             [] section = "api" -> a
                             [] section = "container" -> c
                             [] section = "monitoring" -> m]
             IN  config_load = [NoLoad EXCEPT !.file = ConfigFile("mapping", MappingOf(ch))]

\* line 81: self.load_from_file(config_file)
LoadFromFile ==
    /\ ~config_load.called
    /\ LET r == DoLoadFromFile(config, config_load.file)
       IN  /\ config' = r.config
           /\ config_load' = [config_load EXCEPT !.called = TRUE, !.raised = r.raised]
    /\ UNCHANGED <<rl_vars, client_vars, build_vars, loop, thread_vars, pod_vars,
                   closed, docker_vars>>

ConfigNext == LoadFromFile

SpecConfig == ConfigInit /\ [][ConfigNext]_vars

(***************************************************************************)
(* Claims about _make_request (checked under Spec, C6 under SpecEquiv)     *)
(***************************************************************************)
\* the transport call raised a connectivity failure or a timeout
TransportRaised(o) == o.kind = "raise" /\ o.exc \in TransportErrors

\* a response whose body decodes as its declared type
WellFormed(o) == o.kind = "response" /\ (o.ctype = Json => o.decodes)

\* the last transport outcome of the request
LastOutcome == req.trace[Len(req.trace)]

\* C1: exhaustion: for every retries >= 0, when every transport call of one
\* _make_request raises, the transport is called exactly retries + 1 times and
\* the returned envelope has status_code = 0, no data, empty headers,
\* success = false and a non-empty error.
C1_Exhaustion ==
    (/\ req.pc = "returned"
     /\ \A i \in 1..Len(req.trace) : TransportRaised(req.trace[i]))
        => /\ req.calls = retries + 1
           /\ req.result.status_code = 0
           /\ req.result.data = None
           /\ req.result.headers = {}
           /\ ~req.result.success
           /\ req.result.error.some
           /\ req.result.error.val # ""

\* C2: no retry on remote error: when the transport returns a well-formed
\* response with status >= 400, _make_request calls the transport exactly once
\* for every value of retries, sleeps no backoff, and returns an envelope with
\* that status_code, success = false and error unset.
C2_NoRetryOnRemoteError ==
    (/\ Len(req.trace) >= 1
     /\ WellFormed(req.trace[1])
     /\ req.trace[1].status >= 400)
        => /\ req.pc = "returned"
           /\ req.calls = 1
           /\ req.sleeps = <<>>
           /\ req.result.status_code = req.trace[1].status
           /\ ~req.result.success
           /\ req.result.error = None

\* a 500 answered on the first attempt of a client with retries to spare
C2_Witness ==
    /\ retries = MaxRetries
    /\ req.pc = "returned"
    /\ req.calls = 1
    /\ req.result.status_code = 500

\* C3: retry then success: when the transport raises on the first k attempts
\* (k <= retries, so also for every k < retries) and returns a well-formed
\* response with status < 400 on attempt k + 1, _make_request returns a
\* successful envelope carrying that response, the transport is called exactly
\* k + 1 times, and the delay after the failed attempt with index i is 2^i s.
C3_RetryThenSuccess ==
    \A k \in 0..retries :
        (/\ Len(req.trace) = k + 1
         /\ \A i \in 1..k : TransportRaised(req.trace[i])
         /\ WellFormed(req.trace[k + 1])
         /\ req.trace[k + 1].status < 400)
            => /\ req.pc = "returned"
               /\ req.result.success
               /\ req.result.status_code = req.trace[k + 1].status
               /\ req.result.headers = HeadersOf(req.trace[k + 1])
               /\ req.result.data # None
               /\ req.result.error = None
               /\ req.calls = k + 1
               /\ req.sleeps = [i \in 1..k |-> 2 ^ (i - 1)]

\* two failed attempts, delays of 1 s and 2 s, then a 200
C3_Witness ==
    /\ req.pc = "returned"
    /\ Len(req.trace) = 3
    /\ TransportRaised(req.trace[1])
    /\ TransportRaised(req.trace[2])
    /\ req.trace[3].status = 200
    /\ req.result.success
    /\ req.sleeps = <<1, 2>>

\* C4: envelope invariant: every APIResponse returned by _make_request has
\* (success => status_code in 100..399 and error absent) and
\* (status_code = 0 => success = false and error present).
C4_EnvelopeInvariant ==
    req.pc = "returned" =>
        /\ req.result.success =>
              /\ req.result.status_code \in 100..399
              /\ req.result.error = None
        /\ req.result.status_code = 0 =>
              /\ ~req.result.success
              /\ req.result.error # None

\* an envelope built after the loop was exhausted on the session path
C4_Witness ==
    /\ req.pc = "returned"
    /\ session
    /\ req.result.status_code = 0
    /\ req.calls = retries + 1
    /\ retries >= 1

\* C5: _make_request never raises for a connectivity failure, a timeout or an
\* HTTP error status: after such an outcome the request is retried or an
\* APIResponse is returned, and the failure shows in success and error only.
C5_NeverRaises ==
    (Len(req.trace) >= 1 /\ (TransportRaised(LastOutcome) \/ LastOutcome.kind = "response"))
        => /\ req.pc \in {"loop", "returned"}
           /\ req.pc = "returned" =>
                 /\ req.result # NoResult
                 /\ TransportRaised(LastOutcome) =>
                        ~req.result.success /\ req.result.error # None
                 /\ LastOutcome.status >= 400 => ~req.result.success

\* a timeout on the last attempt, reported in the envelope
C5_Witness ==
    /\ req.pc = "returned"
    /\ Len(req.trace) = retries + 1
    /\ LastOutcome = Raise("TimeoutError")
    /\ req.result.error = Some("")

\* the request has ended
Done(r) == r.pc \in {"returned", "raised"}

\* C6: the session path and the session-less path are outcome-equivalent: on
\* the same transport outcome per attempt both make the same number of
\* attempts, sleep the same backoffs and return envelopes with the same
\* status_code, success and presence of error.
C6_PathsEquivalent ==
    (Done(req) /\ Done(twin.req))
        => /\ req.pc = twin.req.pc
           /\ req.calls = twin.req.calls
           /\ req.sleeps = twin.req.sleeps
           /\ req.result.status_code = twin.req.result.status_code
           /\ req.result.success = twin.req.result.success
           /\ req.result.error.some = twin.req.result.error.some

(***************************************************************************)
(* Claims about the RateLimiter (checked under SpecRL)                     *)
(***************************************************************************)
\* the first can_proceed call of the behaviour, made on the empty limiter
BurstStart == rl_log[1].t

\* calls 1..k of the log were all made at the instant of the first call
InBurst(k) == \A j \in 1..k : rl_log[j].t = BurstStart

\* call k is the first call made once the window has passed since the burst
FirstAfterWindow(k) ==
    /\ rl_log[k].t >= BurstStart + time_window
    /\ \A j \in 1..(k - 1) : rl_log[j].t < BurstStart + time_window

\* C7: with max_requests = N >= 1 and time_window = W >= 1, starting empty,
\* the first N calls of can_proceed at one instant return true, the (N+1)th
\* call at that instant returns false, and the first call made once the clock
\* has advanced by at least W (exactly W included) returns true again.
C7_BurstThenWindow ==
    max_requests >= 1 =>
        \A k \in 1..Len(rl_log) :
            /\ (InBurst(k) /\ k <= max_requests) => rl_log[k].ok
            /\ (InBurst(k) /\ k = max_requests + 1) => ~rl_log[k].ok
            /\ (Len(rl_log) > max_requests /\ InBurst(max_requests + 1)
                    /\ FirstAfterWindow(k)) => rl_log[k].ok

\* a burst of N = 2 admitted calls, the third denied, and a call exactly W later admitted
C7_Witness ==
    /\ max_requests = 2
    /\ Len(rl_log) >= 4
    /\ InBurst(3)
    /\ rl_log[1].ok /\ rl_log[2].ok /\ ~rl_log[3].ok
    /\ rl_log[4].t = BurstStart + time_window
    /\ rl_log[4].ok

\* C8: after every call of can_proceed the number of recorded timestamps is at
\* most max_requests, and every recorded timestamp is younger than time_window
\* at the moment of that call.
C8_CountWithinMax ==
    cp_last.called =>
        /\ Len(requests) <= max_requests
        /\ \A i \in 1..Len(requests) : cp_last.t - requests[i] < time_window

\* a call that pruned an aged timestamp and left the list full
C8_Witness ==
    /\ cp_last.called
    /\ max_requests = 2
    /\ Len(requests) = max_requests
    /\ Len(Prune(cp_last.before, cp_last.t, time_window)) < Len(cp_last.before)

\* the admitted calls of the log
AdmittedAt == {k \in 1..Len(rl_log) : rl_log[k].ok}

\* C9: no burst credit is banked: the number of can_proceed calls that returned
\* true within any time interval shorter than time_window is at most
\* max_requests, whatever idle periods lie in between.
C9_NoBurstCredit ==
    \A i \in AdmittedAt :
        Cardinality({k \in AdmittedAt :
                        /\ rl_log[k].t >= rl_log[i].t
                        /\ rl_log[k].t - rl_log[i].t < time_window})
            <= max_requests

\* after an idle window, a full burst was admitted and the next call denied
C9_Witness ==
    /\ max_requests = 2
    /\ Len(rl_log) >= 3
    /\ rl_log[1].t >= time_window
    /\ InBurst(3)
    /\ rl_log[1].ok /\ rl_log[2].ok /\ ~rl_log[3].ok

\* the number of occurrences of v in s
Count(s, v) == Cardinality({i \in 1..Len(s) : s[i] = v})

\* C10: can_proceed changes the timestamp list only on admission: when it
\* returns false the recorded timestamps are exactly those before the call;
\* when it returns true exactly one timestamp, the call's now, is appended
\* (to timestamps that were all recorded before).
C10_MutatesOnlyOnAdmission ==
    cp_last.called =>
        IF cp_last.ok
        THEN /\ Len(requests) >= 1
             /\ requests[Len(requests)] = cp_last.t
             /\ \A v \in 0..MaxNow :
                    Count(SubSeq(requests, 1, Len(requests) - 1), v)
                        <= Count(cp_last.before, v)
        ELSE requests = cp_last.before

\* a denied call on a full list, made later than the recorded timestamps
C10_Witness ==
    /\ cp_last.called
    /\ ~cp_last.ok
    /\ max_requests >= 1
    /\ Len(cp_last.before) = max_requests
    /\ \A i \in 1..Len(cp_last.before) : cp_last.before[i] < cp_last.t

\* the oldest timestamp of a non-empty list
Oldest(s) ==
    CHOOSE x \in {s[i] : i \in DOMAIN s} : \A j \in DOMAIN s : x <= s[j]

\* C11: wait_time returns 0 when no timestamp is recorded, and otherwise
\* max(0, time_window - (now - oldest timestamp)); it never changes the
\* recorded timestamps.
C11_WaitTimeValue ==
    wt_last.called =>
        /\ wt_last.before = <<>> => wt_last.ret = 0
        /\ wt_last.before # <<>> =>
              LET remaining == time_window - (wt_last.t - Oldest(wt_last.before))
              IN  /\ wt_last.ret >= 0
                  /\ wt_last.ret >= remaining
                  /\ wt_last.ret \in {0, remaining}
        /\ wt_last.after = wt_last.before

\* wait_time was called with two different timestamps recorded and returned a
\* positive wait
C11_Witness ==
    /\ wt_last.called
    /\ Len(wt_last.before) >= 2
    /\ wt_last.before[1] # wt_last.before[Len(wt_last.before)]
    /\ wt_last.ret > 0
    /\ wt_last.t > Oldest(wt_last.before)

\* C12: between two wait_time calls at times t1 <= t2 with no admission in
\* between, the second result is not larger than the first, and wait_time is 0
\* once time_window has elapsed since the oldest timestamp.
C12_WaitTimeNonIncreasing ==
    /\ Len(wt_hist) = 2 =>
          /\ wt_hist[1].t <= wt_hist[2].t
          /\ wt_hist[2].ret <= wt_hist[1].ret
    /\ (/\ wt_last.called
        /\ wt_last.before # <<>>
        /\ wt_last.t - Oldest(wt_last.before) >= time_window)
          => wt_last.ret = 0

\* two wait_time calls without an admission in between: the first returned a
\* positive wait, the second, after the window had elapsed, returned 0
C12_Witness ==
    /\ Len(wt_hist) = 2
    /\ wt_hist[1].t < wt_hist[2].t
    /\ wt_hist[1].ret > 0
    /\ wt_hist[2].ret = 0
    /\ wt_last.before # <<>>
    /\ wt_last.t - Oldest(wt_last.before) >= time_window

\* C13: a RateLimiter with time_window <= 0 is rejected at construction: no
\* limiter with a non-positive window ever exists.
C13_WindowPositive == time_window >= 1

\* C14: max_requests <= 0 blocks all requests forever: a client whose
\* rate_limit is <= 0 admits nothing and no attempt of its requests reaches
\* the transport.
C14_ZeroLimitBlocks ==
    max_requests <= 0 =>
        /\ requests = <<>>
        /\ req.calls = 0
        /\ req.sent = <<>>

\* the transport calls of the request that started in the ClientWindow seconds
\* from its i-th one on
SentInWindowFrom(i) ==
    {j \in i..Len(req.sent) : req.sent[j] - req.sent[i] < ClientWindow}

\* C15: the client honours its rate limit: the transport calls started within
\* any interval shorter than 60 seconds are never more than rate_limit
\* (for a rate_limit of at least 1).
C15_RateHonoured ==
    max_requests >= 1 =>
        \A i \in 1..Len(req.sent) : Cardinality(SentInWindowFrom(i)) <= max_requests

\* C16: on the session path, while a request is suspended in its backoff
\* delay or in its rate-limit wait, another task of the same event loop can
\* take a step.
C16_WaitsDoNotBlock ==
    (loop.at \in {"asyncio.sleep", "time.sleep"} /\ loop.ran < MaxRan)
        => ENABLED LpOther

\* C17: the timestamp list is safely shared by threads that call can_proceed
\* concurrently: every admitted call's timestamp stays in the list until it
\* ages out, and the timestamps within the window are never more than
\* max_requests.
C17_SafelyShared ==
    /\ \A k \in 1..Len(admitted) :
          Count(requests, admitted[k]) >= Count(admitted, admitted[k])
    /\ Len(Prune(requests, now, time_window)) <= max_requests

\* C18: URL joining: the request URL is the base without its trailing
\* slashes, exactly one '/', and the endpoint without its leading slashes;
\* bases 'http://host:8080/' and 'http://host:8080' with endpoint '/users'
\* both give 'http://host:8080/users'.
C18_UrlJoin ==
    built.called =>
        LET b == ctor.base_url
            e == built.endpoint
        IN  /\ \E i \in 0..Len(b), k \in 1..(Len(e) + 1) :
                  /\ i > 0 => b[i] # Slash
                  /\ \A j \in (i + 1)..Len(b) : b[j] = Slash
                  /\ k <= Len(e) => e[k] # Slash
                  /\ \A j \in 1..(k - 1) : e[j] = Slash
                  /\ built.url = SubSeq(b, 1, i) \o <<Slash>> \o SubSeq(e, k, Len(e))
            /\ (b \in {ExampleBase, Append(ExampleBase, Slash)} /\ e = ExampleEndpoint)
                  => built.url = ExampleUrl

\* a request for '/users' by a client constructed with 'http://host:8080/'
C18_Witness ==
    /\ built.called
    /\ ctor.base_url = Append(ExampleBase, Slash)
    /\ built.endpoint = ExampleEndpoint
    /\ built.url = ExampleUrl

\* the dict of a headers argument
CallerDict == IF built.headers.some THEN built.headers.val ELSE EmptyDict

\* C19: header merge: the headers of the request are the default headers
\* (Content-Type, Accept, User-Agent, and Authorization 'Bearer <token>'
\* exactly when a non-empty auth token was given) overridden by the caller's
\* headers: a caller header wins over the default of the same name, every other
\* default is kept, and default_headers is left unchanged.
C19_HeaderMerge ==
    built.called =>
        LET d == built.defaults_before
            h == CallerDict
            m == built.merged_headers
            tok == ctor.auth_token
            supplied == tok.some /\ tok.val # ""
        IN  /\ DOMAIN d = {"Content-Type", "Accept", "User-Agent"}
                            \cup (IF supplied THEN {"Authorization"} ELSE {})
            /\ supplied => d["Authorization"] = "Bearer " \o tok.val
            /\ DOMAIN m = DOMAIN d \cup DOMAIN h
            /\ \A k \in DOMAIN h : m[k] = h[k]
            /\ \A k \in DOMAIN d \ DOMAIN h : m[k] = d[k]
            /\ default_headers = d

\* a client with a token; the caller overrides Authorization and adds a header
C19_Witness ==
    /\ built.called
    /\ ctor.auth_token = Some("tok")
    /\ "Authorization" \in DOMAIN CallerDict
    /\ built.merged_headers["Authorization"] = "Basic abc"
    /\ built.merged_headers["Accept"] = "application/json"
    /\ built.merged_headers["X-Request-Id"] = "42"
    /\ default_headers["Authorization"] = "Bearer tok"

\* the names KubernetesManager tracks
Tracked == {pods[i].name : i \in DOMAIN pods}

\* the PodStatus of a tracked pod that nothing has started
IsPending(st) == st.phase = "Pending" /\ ~st.ready

\* C20: pod tracking: after any sequence of create_pod and delete_pod calls
\* the tracked pods are exactly the names created and not deleted afterwards;
\* create_pod returns the spec's metadata name and the pod is tracked with
\* phase 'Pending' (ready = false); delete_pod returns True and the name is no
\* longer tracked; list_pods returns one PodStatus per tracked pod and
\* get_pod_status returns None for an untracked name.
C20_PodTracking ==
    /\ Tracked = live
    /\ Len(pods) = Cardinality(Tracked)
    /\ \A i \in DOMAIN pods : pods[i].status = "Pending"
    /\ (/\ k8s_last.op = "create_pod"
        /\ k8s_last.spec.metadata = "dict"
        /\ k8s_last.spec.name.some)
          => /\ k8s_last.ret_name = k8s_last.spec.name
             /\ k8s_last.ret_name.val \in Tracked
    /\ k8s_last.op = "delete_pod"
          => /\ k8s_last.ret_ok
             /\ k8s_last.name \notin Tracked
    /\ k8s_last.op = "list_pods"
          => /\ Len(k8s_last.ret_list) = Cardinality(Tracked)
             /\ {k8s_last.ret_list[i].name : i \in DOMAIN k8s_last.ret_list} = Tracked
             /\ \A i \in DOMAIN k8s_last.ret_list : IsPending(k8s_last.ret_list[i])
    /\ k8s_last.op = "get_pod_status"
          => IF k8s_last.name \in Tracked
             THEN /\ k8s_last.ret_status.some
                  /\ k8s_last.ret_status.val.name = k8s_last.name
                  /\ IsPending(k8s_last.ret_status.val)
             ELSE ~k8s_last.ret_status.some

\* two pods were tracked; the last call deleted the one created first and the
\* other one is still tracked
C20_Witness ==
    /\ k8s_last.op = "delete_pod"
    /\ Len(k8s_last.before) = 2
    /\ k8s_last.name = k8s_last.before[1].name
    /\ k8s_last.ret_ok
    /\ Tracked = {k8s_last.before[2].name}
    /\ live = Tracked

\* the documents of the last apply_yaml that are Pods
PodDocs == {i \in DOMAIN k8s_last.yaml : k8s_last.yaml[i].kind = "Pod"}

\* the text of the last apply_yaml can be parsed
Parseable == \A i \in DOMAIN k8s_last.yaml : k8s_last.yaml[i].kind # "error"

\* C21: apply_yaml on a multi-document YAML creates one tracked pod for every
\* document whose kind is 'Pod', ignores empty documents and documents of other
\* kinds, and returns True; on YAML that cannot be parsed it returns False.
C21_ApplyYaml ==
    k8s_last.op = "apply_yaml" =>
        /\ Parseable =>
              /\ k8s_last.ret_ok
              /\ \A i \in PodDocs :
                    \E j \in DOMAIN pods : pods[j].spec = k8s_last.yaml[i].spec
              /\ PodDocs = {} => pods = k8s_last.before
        /\ ~Parseable => ~k8s_last.ret_ok

\* the file names the key in the section, with a value
Names(file, section, key) ==
    /\ file.kind = "mapping"
    /\ section \in DOMAIN file.data
    /\ ~file.data[section].null
    /\ key \in DOMAIN file.data[section].items

\* C22: loading a config file changes only what the file names: a missing
\* file or invalid YAML does not raise and leaves every setting at its default;
\* a file that names only some sections or keys overrides exactly those
\* attributes and leaves every other attribute at its default; keys that are no
\* attributes of the section's dataclass are ignored.
C22_LoadFromFile ==
    config_load.called =>
        LET file == config_load.file
        IN  /\ file.kind \in {"missing", "invalid"} =>
                  config_load.raised = "" /\ config = DefaultConfig
            /\ \A section \in Sections :
                  /\ DOMAIN config[section] = Fields(section)
                  /\ \A key \in Fields(section) :
                        config[section][key] =
                            IF Names(file, section, key)
                            THEN file.data[section].items[key]
                            ELSE Default(section, key)

\* the wait that wait_time reports at time t for the list reqs of the client's
\* limiter
ReportedWait(reqs, t) ==
    IF reqs = <<>> THEN 0
    ELSE IF time_window - (t - Oldest(reqs)) > 0
         THEN time_window - (t - Oldest(reqs))
         ELSE 0

\* C23: every transport call is gated: each attempt first calls can_proceed;
\* when it returns false the caller is blocked for the wait_time() reported at
\* that moment and only then is the transport call of that same attempt
\* performed; when it returns true the transport call follows with no wait.
C23_Gated ==
    /\ Len(req.gate) = req.calls
    /\ Len(req.sent) = req.calls
    /\ Len(req.trace) = req.calls
    /\ \A i \in 1..Len(req.gate) :
          LET g == req.gate[i]
          IN  /\ g.attempt = i - 1
              /\ g.ok => g.wait = 0
              /\ ~g.ok => g.wait = ReportedWait(g.after, g.t)
              /\ req.sent[i] = g.t + g.wait

\* an attempt was denied with two different timestamps recorded, waited and
\* was then sent
C23_Witness ==
    \E i \in 1..Len(req.gate) :
        /\ ~req.gate[i].ok
        /\ req.gate[i].wait > 0
        /\ Len(req.gate[i].after) >= 2
        /\ req.gate[i].after[1] # req.gate[i].after[2]
        /\ req.sent[i] = req.gate[i].t + req.gate[i].wait
        /\ req.calls >= i

\* the sum of a sequence of numbers
RECURSIVE SeqSum(_)
SeqSum(q) == IF q = <<>> THEN 0 ELSE q[1] + SeqSum(Tail(q))

\* a transport-level failure: a connection error, a timeout or a malformed body
FailedAttempt(o) ==
    TransportRaised(o) \/ (o.kind = "response" /\ ~WellFormed(o))

\* the attempts (1-based positions in the trace) after which a backoff is due
BackoffDue ==
    {i \in 1..Len(req.trace) : FailedAttempt(req.trace[i]) /\ i - 1 < retries}

\* C24: backoff schedule: a backoff sleep happens exactly after a failed
\* attempt with index i < retries and lasts 2^i seconds; no sleep follows the
\* last allowed attempt or an attempt that obtained a response; when all
\* attempts fail the cumulative backoff is 2^retries - 1 seconds and
\* response_time is at least that sum.
C24_BackoffSchedule ==
    /\ Len(req.sleeps) = Cardinality(BackoffDue)
    /\ \A k \in 1..Len(req.sleeps) : req.sleeps[k] = 2 ^ (k - 1)
    /\ \A i \in 1..Len(req.trace) :
          WellFormed(req.trace[i]) => Len(req.sleeps) = i - 1
    /\ (/\ req.pc = "returned"
        /\ \A i \in 1..Len(req.trace) : FailedAttempt(req.trace[i]))
          => /\ req.calls = retries + 1
             /\ SeqSum(req.sleeps) = 2 ^ retries - 1
             /\ req.result.response_time >= SeqSum(req.sleeps)

\* the attempt at position i of the trace ended in the except clause
AttemptRaised(i) ==
    \/ TransportRaised(req.trace[i])
    \/ /\ req.gate[i].sess
       /\ req.trace[i].kind = "response"
       /\ req.trace[i].ctype = Json
       /\ ~req.trace[i].decodes

\* the exception the attempt at position i of the trace raised
ErrorOf(i) ==
    IF req.trace[i].kind = "raise" THEN req.trace[i].exc ELSE "JSONDecodeError"

\* C25: when all attempts fail with errors, the error of the returned
\* envelope is the description of the failure of the last attempt (index
\* retries), not of an earlier one; an error recorded by a failed attempt
\* never appears in an envelope built from a later attempt's response.
C25_LastError ==
    req.pc = "returned" =>
        /\ (\A i \in 1..Len(req.trace) : AttemptRaised(i))
              => /\ Len(req.trace) = retries + 1
                 /\ req.gate[Len(req.gate)].attempt = retries
                 /\ req.result.error = Some(StrOf(ErrorOf(Len(req.trace))))
        /\ ~AttemptRaised(Len(req.trace))
              => /\ req.result.error = None
                 /\ req.result.status_code = req.trace[Len(req.trace)].status

\* a timeout, then a refused connection on the last attempt: the envelope
\* carries the description of the refused connection
C25_Witness ==
    /\ req.pc = "returned"
    /\ retries >= 1
    /\ Len(req.trace) = retries + 1
    /\ req.trace[1] = Raise("TimeoutError")
    /\ req.trace[Len(req.trace)] = Raise("ConnectionError")
    /\ req.last_error = Some("Connection refused")
    /\ req.result.error = Some("Connection refused")

\* C26: bounded attempts: for every sequence of transport outcomes one
\* _make_request performs at most retries + 1 transport calls, with attempt
\* indices 0..retries in increasing order, and returns at the first attempt
\* that obtains a response, with an envelope of that response.
C26_BoundedAttempts ==
    /\ req.calls <= retries + 1
    /\ \A i \in 1..Len(req.gate) :
          req.gate[i].attempt = i - 1 /\ req.gate[i].attempt <= retries
    /\ \A i \in 1..Len(req.trace) :
          req.trace[i].kind = "response"
              => /\ i = Len(req.trace)
                 /\ req.pc = "returned"
                 /\ req.result.status_code = req.trace[i].status

\* the number of attempts of the request whose can_proceed returned true
Admitted == Cardinality({i \in 1..Len(req.gate) : req.gate[i].ok})

\* the number of timestamps the attempt at position i added to the limiter
AddedBy(i) ==
    Len(req.gate[i].after)
        - Len(Prune(req.gate[i].before, req.gate[i].t, time_window))

\* C28: the number of timestamps one _make_request adds to the rate limiter
\* equals the number of its attempts whose can_proceed returned true; every
\* retry attempt consults the limiter again and consumes its own slot, and an
\* attempt that was denied and delayed proceeds to the transport without any
\* timestamp being recorded for it.
C28_SlotsConsumed ==
    /\ Len(req.gate) = req.calls
    /\ SeqSum([i \in 1..Len(req.gate) |-> AddedBy(i)]) = Admitted
    /\ \A i \in 1..Len(req.gate) :
          LET g == req.gate[i]
          IN  /\ g.ok => g.after = Append(Prune(g.before, g.t, time_window), g.t)
              /\ ~g.ok => /\ g.after = Prune(g.before, g.t, time_window)
                          /\ Len(req.sent) >= i
                          /\ Len(req.trace) >= i
              /\ i < Len(req.gate) => req.gate[i + 1].before = g.after
    /\ Len(req.gate) > 0 => requests = req.gate[Len(req.gate)].after

\* a retry that was denied, delayed and sent after an attempt of the same
\* request had consumed a slot: one timestamp for two transport calls
C28_Witness ==
    /\ Len(req.gate) >= 2
    /\ req.gate[1].ok
    /\ ~req.gate[2].ok
    /\ req.gate[2].wait > 0
    /\ Len(req.trace) >= 2
    /\ req.gate[2].after = req.gate[1].after
    /\ Admitted = 1

\* C29: transport selection is one-way: a client uses the session-less branch
\* until __aenter__ is first called and the session branch in every request
\* after that, also after __aexit__ has closed the session; the client never
\* returns to the session-less branch.
C29_OneWay ==
    [][/\ session => session'
       /\ Len(req'.gate) > Len(req.gate)
             => /\ req'.gate[Len(req'.gate)].sess = session
                /\ session' = session
       /\ (~session /\ session') => (closed' = FALSE /\ req' = req)]_vars

\* an attempt of a request made after __aexit__ took the session branch
C29_Witness ==
    /\ session
    /\ closed
    /\ req.pc = "loop"
    /\ Len(req.gate) >= 1
    /\ req.gate[Len(req.gate)].sess

\* the names DockerManager tracks
TrackedNames(d) == Keys(d)

\* C27: a successful create_container returns the container id and tracks the
\* container under its name; a failed one returns None and tracks nothing;
\* stop_container, get_container_status and get_container_logs never change
\* the tracked set; a successful remove_container untracks the name; each
\* reports an SDK failure as False / None instead of raising.
C27_DockerTracking ==
    LET c == docker_last
    IN  /\ ~c.raised
        /\ c.op = "create" =>
              /\ c.sdk = "ok" =>
                    /\ c.ret_id # None
                    /\ c.name \in TrackedNames(containers)
                    /\ Item(containers, c.name).obj = Container(c.ret_id.val)
              /\ c.ret_id = None => containers = c.before
              /\ c.sdk = "raise" => c.ret_id = None
        /\ c.op \in {"stop", "status", "logs"} => containers = c.before
        /\ c.op = "stop" /\ c.sdk = "raise" => ~c.ret_ok
        /\ c.op \in {"status", "logs"} /\ c.sdk = "raise" => c.ret_val = None
        /\ c.op = "remove" =>
              /\ c.ret_ok => c.name \notin TrackedNames(containers)
              /\ c.sdk = "raise" => ~c.ret_ok

\* C30: remove_container on a tracked name untracks it before calling the
\* SDK, so when the SDK remove raises it returns False and the name is
\* nevertheless no longer tracked; on an untracked name a failure leaves the
\* tracked set unchanged.
C30_RemoveUntracksFirst ==
    docker_last.op = "remove" =>
        /\ docker_last.name \in TrackedNames(docker_last.before)
              => /\ containers = DictDel(docker_last.before, docker_last.name)
                 /\ docker_last.name \notin TrackedNames(containers)
                 /\ docker_last.sdk = "raise" => ~docker_last.ret_ok
        /\ docker_last.name \notin TrackedNames(docker_last.before)
              => /\ containers = docker_last.before
                 /\ docker_last.sdk = "raise" => ~docker_last.ret_ok

\* the SDK refused to remove a tracked container: False is returned, the
\* name is gone from _containers and the other container stays
C30_Witness ==
    /\ docker_last.op = "remove"
    /\ docker_last.sdk = "raise"
    /\ ~docker_last.ret_ok
    /\ Len(docker_last.before) = 2
    /\ docker_last.name \in TrackedNames(docker_last.before)
    /\ Item(docker_last.before, docker_last.name).obj.kind = "Container"
    /\ docker_last.name \notin TrackedNames(containers)
    /\ Len(containers) = 1

====
